---- MODULE Spec2Model ----
(***************************************************************************)
(* QueryTee (src/app.py): the translate -> execute -> format pipeline of   *)
(* the T-shirt store assistant, and the Quick Stats panel that every run   *)
(* of main() draws after it (lines 210-245).                               *)
(*                                                                         *)
(* Text is modelled as a sequence of characters, each character a string   *)
(* of length one (a character a TLA+ string cannot hold is named by its    *)
(* code point), so that the regular-expression substitutions, strip()      *)
(* and startswith() of the source are computed and not assumed.            *)
(***************************************************************************)
EXTENDS Integers, Sequences, FiniteSets, TLC

VARIABLES
    store_ai,     \* st.session_state.store_ai, None while the key is absent
    session,      \* the requests the host issues on that session
    table,        \* per statement asked: the rows the database holds for it
    pc,           \* per request: position in main()/execute_query()
    question,     \* per request: main's local question
    sql_query,    \* per request: main's local sql_query
    conn,         \* per request: execute_query's local conn (0 = unset)
    fetched,      \* per request: execute_query's local results
    exc,          \* per request: the exception execute_query caught
    results,      \* per request: main's local results
    error,        \* per request: main's local error
    answer,       \* per request: the text shown by st.success / st.error
    statsConn,    \* per request: the Quick Stats panel's conn (0 = unset)
    connections,  \* the connection objects created by mysql.connector.connect
    log,          \* per request: history of the external calls it made
    faultsLeft,   \* failures the environment may still inject
    fnIn,         \* input of the pure text function under study
    fnOnce,       \* its result
    fnTwice,      \* the result of applying it again
    fnPc          \* position of the pure-function study

vars == <<store_ai, session, table, pc, question, sql_query, conn, fetched,
          exc, results, error, answer, statsConn, connections, log, faultsLeft,
          fnIn, fnOnce, fnTwice, fnPc>>

pipelineVars == <<store_ai, session, table, pc, question, sql_query, conn,
                  fetched, exc, results, error, answer, statsConn, connections,
                  log, faultsLeft>>

fnVars == <<fnIn, fnOnce, fnTwice, fnPc>>

(***************************************************************************)
(* Bounds                                                                  *)
(***************************************************************************)
NumRequests == 2      \* requests the host may issue concurrently
MaxRows == 11         \* rows in the table, single-request specification
MaxConcRows == 1      \* rows in the table, concurrent specification
MaxPieces == 5        \* pieces concatenated into a raw model output
MaxCleanLen == 5      \* length of a text given to clean_response_text
MaxFaults == 2        \* failures injected, single-request specification
MaxConcFaults == 1

Requests == 1 .. NumRequests

(***************************************************************************)
(* Characters and Python string primitives                                 *)
(***************************************************************************)
Upper == {"A","B","C","D","E","F","G","H","I","J","K","L","M",
          "N","O","P","Q","R","S","T","U","V","W","X","Y","Z"}

Lower == {"a","b","c","d","e","f","g","h","i","j","k","l","m",
          "n","o","p","q","r","s","t","u","v","w","x","y","z"}

\* the decimal digits of Unicode (category Nd), which \d of a str pattern
\* and float() accept: 66 blocks of ten, each in the order of its values
DigitBlocks ==
    <<
       <<"0","1","2","3","4","5","6","7","8","9">>,
       <<"U+0660","U+0661","U+0662","U+0663","U+0664","U+0665","U+0666","U+0667","U+0668","U+0669">>,
       <<"U+06F0","U+06F1","U+06F2","U+06F3","U+06F4","U+06F5","U+06F6","U+06F7","U+06F8","U+06F9">>,
       <<"U+07C0","U+07C1","U+07C2","U+07C3","U+07C4","U+07C5","U+07C6","U+07C7","U+07C8","U+07C9">>,
       <<"U+0966","U+0967","U+0968","U+0969","U+096A","U+096B","U+096C","U+096D","U+096E","U+096F">>,
       <<"U+09E6","U+09E7","U+09E8","U+09E9","U+09EA","U+09EB","U+09EC","U+09ED","U+09EE","U+09EF">>,
       <<"U+0A66","U+0A67","U+0A68","U+0A69","U+0A6A","U+0A6B","U+0A6C","U+0A6D","U+0A6E","U+0A6F">>,
       <<"U+0AE6","U+0AE7","U+0AE8","U+0AE9","U+0AEA","U+0AEB","U+0AEC","U+0AED","U+0AEE","U+0AEF">>,
       <<"U+0B66","U+0B67","U+0B68","U+0B69","U+0B6A","U+0B6B","U+0B6C","U+0B6D","U+0B6E","U+0B6F">>,
       <<"U+0BE6","U+0BE7","U+0BE8","U+0BE9","U+0BEA","U+0BEB","U+0BEC","U+0BED","U+0BEE","U+0BEF">>,
       <<"U+0C66","U+0C67","U+0C68","U+0C69","U+0C6A","U+0C6B","U+0C6C","U+0C6D","U+0C6E","U+0C6F">>,
       <<"U+0CE6","U+0CE7","U+0CE8","U+0CE9","U+0CEA","U+0CEB","U+0CEC","U+0CED","U+0CEE","U+0CEF">>,
       <<"U+0D66","U+0D67","U+0D68","U+0D69","U+0D6A","U+0D6B","U+0D6C","U+0D6D","U+0D6E","U+0D6F">>,
       <<"U+0DE6","U+0DE7","U+0DE8","U+0DE9","U+0DEA","U+0DEB","U+0DEC","U+0DED","U+0DEE","U+0DEF">>,
       <<"U+0E50","U+0E51","U+0E52","U+0E53","U+0E54","U+0E55","U+0E56","U+0E57","U+0E58","U+0E59">>,
       <<"U+0ED0","U+0ED1","U+0ED2","U+0ED3","U+0ED4","U+0ED5","U+0ED6","U+0ED7","U+0ED8","U+0ED9">>,
       <<"U+0F20","U+0F21","U+0F22","U+0F23","U+0F24","U+0F25","U+0F26","U+0F27","U+0F28","U+0F29">>,
       <<"U+1040","U+1041","U+1042","U+1043","U+1044","U+1045","U+1046","U+1047","U+1048","U+1049">>,
       <<"U+1090","U+1091","U+1092","U+1093","U+1094","U+1095","U+1096","U+1097","U+1098","U+1099">>,
       <<"U+17E0","U+17E1","U+17E2","U+17E3","U+17E4","U+17E5","U+17E6","U+17E7","U+17E8","U+17E9">>,
       <<"U+1810","U+1811","U+1812","U+1813","U+1814","U+1815","U+1816","U+1817","U+1818","U+1819">>,
       <<"U+1946","U+1947","U+1948","U+1949","U+194A","U+194B","U+194C","U+194D","U+194E","U+194F">>,
       <<"U+19D0","U+19D1","U+19D2","U+19D3","U+19D4","U+19D5","U+19D6","U+19D7","U+19D8","U+19D9">>,
       <<"U+1A80","U+1A81","U+1A82","U+1A83","U+1A84","U+1A85","U+1A86","U+1A87","U+1A88","U+1A89">>,
       <<"U+1A90","U+1A91","U+1A92","U+1A93","U+1A94","U+1A95","U+1A96","U+1A97","U+1A98","U+1A99">>,
       <<"U+1B50","U+1B51","U+1B52","U+1B53","U+1B54","U+1B55","U+1B56","U+1B57","U+1B58","U+1B59">>,
       <<"U+1BB0","U+1BB1","U+1BB2","U+1BB3","U+1BB4","U+1BB5","U+1BB6","U+1BB7","U+1BB8","U+1BB9">>,
       <<"U+1C40","U+1C41","U+1C42","U+1C43","U+1C44","U+1C45","U+1C46","U+1C47","U+1C48","U+1C49">>,
       <<"U+1C50","U+1C51","U+1C52","U+1C53","U+1C54","U+1C55","U+1C56","U+1C57","U+1C58","U+1C59">>,
       <<"U+A620","U+A621","U+A622","U+A623","U+A624","U+A625","U+A626","U+A627","U+A628","U+A629">>,
       <<"U+A8D0","U+A8D1","U+A8D2","U+A8D3","U+A8D4","U+A8D5","U+A8D6","U+A8D7","U+A8D8","U+A8D9">>,
       <<"U+A900","U+A901","U+A902","U+A903","U+A904","U+A905","U+A906","U+A907","U+A908","U+A909">>,
       <<"U+A9D0","U+A9D1","U+A9D2","U+A9D3","U+A9D4","U+A9D5","U+A9D6","U+A9D7","U+A9D8","U+A9D9">>,
       <<"U+A9F0","U+A9F1","U+A9F2","U+A9F3","U+A9F4","U+A9F5","U+A9F6","U+A9F7","U+A9F8","U+A9F9">>,
       <<"U+AA50","U+AA51","U+AA52","U+AA53","U+AA54","U+AA55","U+AA56","U+AA57","U+AA58","U+AA59">>,
       <<"U+ABF0","U+ABF1","U+ABF2","U+ABF3","U+ABF4","U+ABF5","U+ABF6","U+ABF7","U+ABF8","U+ABF9">>,
       <<"U+FF10","U+FF11","U+FF12","U+FF13","U+FF14","U+FF15","U+FF16","U+FF17","U+FF18","U+FF19">>,
       <<"U+104A0","U+104A1","U+104A2","U+104A3","U+104A4","U+104A5","U+104A6","U+104A7","U+104A8","U+104A9">>,
       <<"U+10D30","U+10D31","U+10D32","U+10D33","U+10D34","U+10D35","U+10D36","U+10D37","U+10D38","U+10D39">>,
       <<"U+11066","U+11067","U+11068","U+11069","U+1106A","U+1106B","U+1106C","U+1106D","U+1106E","U+1106F">>,
       <<"U+110F0","U+110F1","U+110F2","U+110F3","U+110F4","U+110F5","U+110F6","U+110F7","U+110F8","U+110F9">>,
       <<"U+11136","U+11137","U+11138","U+11139","U+1113A","U+1113B","U+1113C","U+1113D","U+1113E","U+1113F">>,
       <<"U+111D0","U+111D1","U+111D2","U+111D3","U+111D4","U+111D5","U+111D6","U+111D7","U+111D8","U+111D9">>,
       <<"U+112F0","U+112F1","U+112F2","U+112F3","U+112F4","U+112F5","U+112F6","U+112F7","U+112F8","U+112F9">>,
       <<"U+11450","U+11451","U+11452","U+11453","U+11454","U+11455","U+11456","U+11457","U+11458","U+11459">>,
       <<"U+114D0","U+114D1","U+114D2","U+114D3","U+114D4","U+114D5","U+114D6","U+114D7","U+114D8","U+114D9">>,
       <<"U+11650","U+11651","U+11652","U+11653","U+11654","U+11655","U+11656","U+11657","U+11658","U+11659">>,
       <<"U+116C0","U+116C1","U+116C2","U+116C3","U+116C4","U+116C5","U+116C6","U+116C7","U+116C8","U+116C9">>,
       <<"U+11730","U+11731","U+11732","U+11733","U+11734","U+11735","U+11736","U+11737","U+11738","U+11739">>,
       <<"U+118E0","U+118E1","U+118E2","U+118E3","U+118E4","U+118E5","U+118E6","U+118E7","U+118E8","U+118E9">>,
       <<"U+11950","U+11951","U+11952","U+11953","U+11954","U+11955","U+11956","U+11957","U+11958","U+11959">>,
       <<"U+11C50","U+11C51","U+11C52","U+11C53","U+11C54","U+11C55","U+11C56","U+11C57","U+11C58","U+11C59">>,
       <<"U+11D50","U+11D51","U+11D52","U+11D53","U+11D54","U+11D55","U+11D56","U+11D57","U+11D58","U+11D59">>,
       <<"U+11DA0","U+11DA1","U+11DA2","U+11DA3","U+11DA4","U+11DA5","U+11DA6","U+11DA7","U+11DA8","U+11DA9">>,
       <<"U+16A60","U+16A61","U+16A62","U+16A63","U+16A64","U+16A65","U+16A66","U+16A67","U+16A68","U+16A69">>,
       <<"U+16AC0","U+16AC1","U+16AC2","U+16AC3","U+16AC4","U+16AC5","U+16AC6","U+16AC7","U+16AC8","U+16AC9">>,
       <<"U+16B50","U+16B51","U+16B52","U+16B53","U+16B54","U+16B55","U+16B56","U+16B57","U+16B58","U+16B59">>,
       <<"U+1D7CE","U+1D7CF","U+1D7D0","U+1D7D1","U+1D7D2","U+1D7D3","U+1D7D4","U+1D7D5","U+1D7D6","U+1D7D7">>,
       <<"U+1D7D8","U+1D7D9","U+1D7DA","U+1D7DB","U+1D7DC","U+1D7DD","U+1D7DE","U+1D7DF","U+1D7E0","U+1D7E1">>,
       <<"U+1D7E2","U+1D7E3","U+1D7E4","U+1D7E5","U+1D7E6","U+1D7E7","U+1D7E8","U+1D7E9","U+1D7EA","U+1D7EB">>,
       <<"U+1D7EC","U+1D7ED","U+1D7EE","U+1D7EF","U+1D7F0","U+1D7F1","U+1D7F2","U+1D7F3","U+1D7F4","U+1D7F5">>,
       <<"U+1D7F6","U+1D7F7","U+1D7F8","U+1D7F9","U+1D7FA","U+1D7FB","U+1D7FC","U+1D7FD","U+1D7FE","U+1D7FF">>,
       <<"U+1E140","U+1E141","U+1E142","U+1E143","U+1E144","U+1E145","U+1E146","U+1E147","U+1E148","U+1E149">>,
       <<"U+1E2F0","U+1E2F1","U+1E2F2","U+1E2F3","U+1E2F4","U+1E2F5","U+1E2F6","U+1E2F7","U+1E2F8","U+1E2F9">>,
       <<"U+1E950","U+1E951","U+1E952","U+1E953","U+1E954","U+1E955","U+1E956","U+1E957","U+1E958","U+1E959">>,
       <<"U+1FBF0","U+1FBF1","U+1FBF2","U+1FBF3","U+1FBF4","U+1FBF5","U+1FBF6","U+1FBF7","U+1FBF8","U+1FBF9">>
    >>

Digit == {DigitBlocks[b][i] : b \in 1 .. Len(DigitBlocks), i \in 1 .. 10}

\* the value of a decimal digit
DigitValue(c) ==
    (CHOOSE i \in 1 .. 10 :
        \E b \in 1 .. Len(DigitBlocks) : DigitBlocks[b][i] = c) - 1

\* the characters str.strip() removes: the Unicode whitespace of Python
Whitespace ==
    {"\t", "\n", "U+000B", "U+000C", "\r", "U+001C", "U+001D", "U+001E",
     "U+001F", " ", "U+0085", "U+00A0", "U+1680", "U+2000", "U+2001",
     "U+2002", "U+2003", "U+2004", "U+2005", "U+2006", "U+2007", "U+2008",
     "U+2009", "U+200A", "U+2028", "U+2029", "U+202F", "U+205F", "U+3000"}

RECURSIVE LStrip(_)
LStrip(s) ==
    IF s # <<>> /\ Head(s) \in Whitespace THEN LStrip(Tail(s)) ELSE s

RECURSIVE RStrip(_)
RStrip(s) ==
    IF s # <<>> /\ s[Len(s)] \in Whitespace
    THEN RStrip(SubSeq(s, 1, Len(s) - 1))
    ELSE s

\* str.strip()
Strip(s) == RStrip(LStrip(s))

\* pattern p occurs in s at position i
MatchAt(s, i, p) ==
    /\ i + Len(p) - 1 <= Len(s)
    /\ \A k \in 1 .. Len(p) : s[i + k - 1] = p[k]

\* str.startswith(p)
StartsWith(s, p) == MatchAt(s, 1, p)

\* p in s
Contains(s, p) == \E i \in 1 .. Len(s) : MatchAt(s, i, p)

RECURSIVE Concat(_)
Concat(ss) == IF ss = <<>> THEN <<>> ELSE Head(ss) \o Concat(Tail(ss))

\* sep.join(parts)
RECURSIVE Join(_, _)
Join(sep, parts) ==
    IF parts = <<>> THEN <<>>
    ELSE IF Len(parts) = 1 THEN parts[1]
    ELSE parts[1] \o sep \o Join(sep, Tail(parts))

\* the characters str() and format() write digits with
DigitChars == <<"0","1","2","3","4","5","6","7","8","9">>

\* the decimal digits of a natural number, most significant first
RECURSIVE NatDigits(_)
NatDigits(n) ==
    IF n < 10 THEN <<n>> ELSE Append(NatDigits(n \div 10), n % 10)

DigitText(ds) == [i \in 1 .. Len(ds) |-> DigitChars[ds[i] + 1]]

\* str(n) for an integer
IntStr(n) ==
    IF n < 0 THEN <<"-">> \o DigitText(NatDigits(0 - n))
    ELSE DigitText(NatDigits(n))

(***************************************************************************)
(* clean_response_text                                                     *)
(***************************************************************************)
\* re.sub of a two-character pattern (c1 in First)(c2 in Second) by
\* c1 " " c2: leftmost, non-overlapping matches, scanning from position i
RECURSIVE SubInsertSpace(_, _, _, _)
SubInsertSpace(text, First, Second, i) ==
    IF i > Len(text) THEN <<>>
    ELSE IF /\ i < Len(text)
            /\ text[i] \in First
            /\ text[i + 1] \in Second
         THEN <<text[i], " ", text[i + 1]>>
                  \o SubInsertSpace(text, First, Second, i + 2)
         ELSE <<text[i]>> \o SubInsertSpace(text, First, Second, i + 1)

SubPeriodCapital(text) == SubInsertSpace(text, {"."}, Upper, 1)

SubLowerUpper_anyLetter(text) ==
    SubInsertSpace(text, Lower \cup Upper, Upper, 1)

SubLowerUpper(text) == SubInsertSpace(text, Lower, Upper, 1)

SubDigitLetter(text) == SubInsertSpace(text, Digit, Lower \cup Upper, 1)

clean_response_text(text) ==
    SubDigitLetter(SubLowerUpper(SubPeriodCapital(text)))

(***************************************************************************)
(* natural_language_to_sql: extraction of the query from the raw output    *)
(***************************************************************************)
\* the backtick, which a TLA+ string cannot hold, named by its code point
Backtick == "U+0060"

FenceSql == <<Backtick, Backtick, Backtick, "s", "q", "l">>

Fence == <<Backtick, Backtick, Backtick>>

\* re.sub(pat + r'\n?', '', s): leftmost, non-overlapping, greedy newline
RECURSIVE SubRemove(_, _, _)
SubRemove(s, pat, i) ==
    IF i > Len(s) THEN <<>>
    ELSE IF MatchAt(s, i, pat)
         THEN LET j == i + Len(pat)
                  k == IF j <= Len(s) /\ s[j] = "\n" THEN j + 1 ELSE j
              IN  SubRemove(s, pat, k)
         ELSE <<s[i]>> \o SubRemove(s, pat, i + 1)

ExtractSql_onlyTagged(raw) ==
    Strip(SubRemove(Strip(raw), FenceSql, 1))

ExtractSql(raw) ==
    Strip(SubRemove(SubRemove(Strip(raw), FenceSql, 1), Fence, 1))

(***************************************************************************)
(* Text literals of the source, character by character                     *)
(***************************************************************************)
\* the prefix main() tests with startswith (line 192)
ErrorPrefix ==
    <<"E","r","r","o","r">>

\* line 91
ErrorGeneratingSql ==
    <<"E","r","r","o","r"," ","g","e","n","e","r","a","t","i","n","g"," ",
      "S","Q","L",":"," ">>

\* line 97
ConnFailedMsg ==
    <<"D","a","t","a","b","a","s","e"," ","c","o","n","n","e","c","t","i",
      "o","n"," ","f","a","i","l","e","d">>

\* line 117
ApologyPrefix ==
    <<"I"," ","a","p","o","l","o","g","i","z","e",","," ","b","u","t"," ",
      "I"," ","e","n","c","o","u","n","t","e","r","e","d"," ","a","n"," ",
      "e","r","r","o","r"," ","p","r","o","c","e","s","s","i","n","g"," ",
      "y","o","u","r"," ","q","u","e","s","t","i","o","n",":"," ">>

\* line 120
NoMatchText ==
    <<"I"," ","c","o","u","l","d","n","'","t"," ","f","i","n","d"," ","a",
      "n","y"," ","m","a","t","c","h","i","n","g"," ","r","e","s","u","l",
      "t","s"," ","f","o","r"," ","y","o","u","r"," ","q","u","e","s","t",
      "i","o","n",".">>

\* line 151
FoundPre ==
    <<"F","o","u","n","d"," ">>

\* line 151
FoundPost ==
    <<" ","r","e","s","u","l","t","s",":","\n","\n">>

\* lines 149-165: the text returned for an empty frame and the literal
\* text of the f-strings of the fallback; sep is the separator of line 162
\* as the source file holds it, three non-ASCII characters between two
\* spaces, each named by its code point
FallbackText ==
    [none |-> <<"N","o"," ","r","e","s","u","l","t","s"," ","f","o","u","n",
                "d",".">>,
     bold |-> <<"*","*">>,
     dash |-> <<" ","-"," ">>,
     boldEnd |-> <<"*","*","\n">>,
     size |-> <<"S","i","z","e",":"," ">>,
     color |-> <<"C","o","l","o","r",":"," ">>,
     price |-> <<"P","r","i","c","e",":"," ","$">>,
     stock |-> <<"S","t","o","c","k",":"," ">>,
     units |-> <<" ","u","n","i","t","s">>,
     rowEnd |-> <<"\n","\n">>,
     pipe |-> <<" ","|"," ">>,
     colon |-> <<":"," ">>,
     sep |-> <<" ","U+00E2","U+20AC","U+00A2"," ">>]

ColBrand ==
    <<"b","r","a","n","d">>

ColProductName ==
    <<"p","r","o","d","u","c","t","_","n","a","m","e">>

ColSize ==
    <<"s","i","z","e">>

ColColor ==
    <<"c","o","l","o","r">>

ColPrice ==
    <<"p","r","i","c","e","_","p","e","r","_","i","t","e","m">>

ColStock ==
    <<"s","t","o","c","k","_","q","u","a","n","t","i","t","y">>

\* lines 50, 54
ColId == <<"i","d">>

ColMinQuantity ==
    <<"m","i","n","_","q","u","a","n","t","i","t","y">>

\* the statement of the spec's fenced example
SelectInventory ==
    <<"S","E","L","E","C","T"," ","*"," ","F","R","O","M"," ","i","n","v",
      "e","n","t","o","r","y">>

\* the cells of a product row
Sample ==
    [brand |-> <<"N","i","k","e">>,
     name |-> <<"T","e","e">>,
     size |-> <<"2","X","L">>,
     color |-> <<"B","l","a","c","k">>]

\* line 41
ConnFailedShown ==
    <<"D","a","t","a","b","a","s","e"," ","c","o","n","n","e","c","t","i",
      "o","n"," ","f","a","i","l","e","d",":"," ">>

\* the text of st.warning at line 208 and of st.error at lines 243, 245
Messages ==
    [warning |-> <<"P","l","e","a","s","e"," ","e","n","t","e","r"," ","a",
                   " ","q","u","e","s","t","i","o","n","!">>,
     statsConnFailed |-> <<"D","a","t","a","b","a","s","e"," ","c","o","n",
                           "n","e","c","t","i","o","n"," ","f","a","i","l",
                           "e","d","."," ","C","a","n","n","o","t"," ","l",
                           "o","a","d"," ","s","t","a","t","s",".">>,
     statsError |-> <<"E","r","r","o","r"," ","l","o","a","d","i","n","g"," ",
                      "s","t","a","t","s",":"," ">>]

\* lines 217-223: the statements of the Quick Stats panel, in order
StatsSql ==
    <<
      <<"S","E","L","E","C","T"," ","C","O","U","N","T","(","*",")"," ","a",
        "s"," ","t","o","t","a","l"," ","F","R","O","M"," ","i","n","v","e",
        "n","t","o","r","y">>,
      <<"S","E","L","E","C","T"," ","C","O","U","N","T","(","D","I","S","T",
        "I","N","C","T"," ","b","r","a","n","d",")"," ","a","s"," ","t","o",
        "t","a","l"," ","F","R","O","M"," ","i","n","v","e","n","t","o","r",
        "y">>,
      <<"S","E","L","E","C","T"," ","C","O","U","N","T","(","*",")"," ","a",
        "s"," ","t","o","t","a","l"," ","F","R","O","M"," ","i","n","v","e",
        "n","t","o","r","y"," ","W","H","E","R","E"," ","s","t","o","c","k",
        "_","q","u","a","n","t","i","t","y"," ","<"," ","1","0">>,
      <<"S","E","L","E","C","T"," ","C","O","U","N","T","(","*",")"," ","a",
        "s"," ","t","o","t","a","l"," ","F","R","O","M"," ","d","i","s","c",
        "o","u","n","t","s"," ","W","H","E","R","E"," ","i","s","_","a","c",
        "t","i","v","e"," ","="," ","T","R","U","E"," ","A","N","D"," ","C",
        "U","R","D","A","T","E","(",")"," ","B","E","T","W","E","E","N"," ",
        "s","t","a","r","t","_","d","a","t","e"," ","A","N","D"," ","e","n",
        "d","_","d","a","t","e">>,
      <<"S","E","L","E","C","T"," ","A","V","G","(","p","r","i","c","e","_",
        "p","e","r","_","i","t","e","m",")"," ","a","s"," ","a","v","g","_",
        "p","r","i","c","e"," ","F","R","O","M"," ","i","n","v","e","n","t",
        "o","r","y">>
    >>

(***************************************************************************)
(* Optional values (Python None) and truthiness                            *)
(***************************************************************************)
NoneV == [some |-> FALSE, val |-> <<>>]

Some(v) == [some |-> TRUE, val |-> v]

\* Python truth value of an optional str or list: None, "" and [] are false
Truthy(o) == o.some /\ o.val # <<>>

(***************************************************************************)
(* Result rows: ordered column -> value mappings (cursor(dictionary=True))  *)
(***************************************************************************)
StrV(s) == [kind |-> "str", text |-> s, num |-> 0]

IntV(n) == [kind |-> "int", text |-> <<>>, num |-> n]

\* a DECIMAL column value (decimal.Decimal with two places), held in cents
DecV(cents) == [kind |-> "dec", text |-> <<>>, num |-> cents]

\* SQL NULL, Python None
NullV == [kind |-> "null", text |-> <<>>, num |-> 0]

\* a float holding a whole number, and the float NaN: what pandas makes of
\* the cells of an integer column that also holds NULL
FloatV(n) == [kind |-> "float", text |-> <<>>, num |-> n]

NaNV == [kind |-> "nan", text |-> <<>>, num |-> 0]

(***************************************************************************)
(* float(text) and the format specification .2f                            *)
(***************************************************************************)
\* c.lower() of an ASCII letter; other characters are kept
ToLower(c) ==
    LET upper == <<"A","B","C","D","E","F","G","H","I","J","K","L","M",
                   "N","O","P","Q","R","S","T","U","V","W","X","Y","Z">>
        lower == <<"a","b","c","d","e","f","g","h","i","j","k","l","m",
                   "n","o","p","q","r","s","t","u","v","w","x","y","z">>
    IN  IF c \in Upper
        THEN lower[CHOOSE i \in 1 .. 26 : upper[i] = c]
        ELSE c

\* first position of s holding a character of cs, 0 if none
IndexOf(s, cs) ==
    IF \E i \in 1 .. Len(s) : s[i] \in cs
    THEN CHOOSE i \in 1 .. Len(s) :
            /\ s[i] \in cs
            /\ \A j \in 1 .. i - 1 : s[j] \notin cs
    ELSE 0

\* a digit part or nothing: digits, with single underscores between
\* digits allowed
OptDigitPart(d) ==
    /\ \A i \in 1 .. Len(d) : d[i] \in Digit \cup {"_"}
    /\ d # <<>> => (d[1] # "_" /\ d[Len(d)] # "_")
    /\ \A i \in 1 .. Len(d) - 1 : ~(d[i] = "_" /\ d[i + 1] = "_")

\* the digit values of a digit part
DigitValues(d) ==
    LET digits == SelectSeq(d, LAMBDA c : c # "_")
    IN  [i \in 1 .. Len(digits) |-> DigitValue(digits[i])]

Zeros(n) == [i \in 1 .. n |-> 0]

\* a digit sequence without its leading zeros; zero keeps one digit
StripZeros(ds) ==
    IF \A i \in 1 .. Len(ds) : ds[i] = 0
    THEN (IF ds = <<>> THEN <<>> ELSE <<0>>)
    ELSE SubSeq(ds,
                CHOOSE i \in 1 .. Len(ds) :
                    ds[i] # 0 /\ \A j \in 1 .. i - 1 : ds[j] = 0,
                Len(ds))

\* the number a sequence of at most nine digits denotes
RECURSIVE DigitsNat(_, _)
DigitsNat(ds, acc) ==
    IF ds = <<>> THEN acc ELSE DigitsNat(Tail(ds), acc * 10 + Head(ds))

\* float(s) reads an exponent written with more than nine digits after
\* its leading zeros as this one (MAX_ABS_EXP of the interpreter's
\* conversion of text to float)
ExponentCap == 1100000000

\* float(s) raises ValueError on more than this many mantissa digits
\* (MAX_DIGITS of the same conversion)
MaxDigits == 1000000000

\* float(s) raised ValueError
NotAFloat ==
    [ok |-> FALSE, neg |-> FALSE, special |-> "",
     int |-> <<>>, frac |-> <<>>, exp |-> 0]

\* float(s): the value (-1)^neg * int.frac * 10^exp of the digit values
\* vals of the integer, fraction and exponent parts; the mantissa digits
\* are counted from the first one that is not zero, and so are those of
\* the fraction alone
ParsedNumber(neg, vals, eNeg) ==
    IF \/ Len(vals[2]) > MaxDigits
       \/ Len(StripZeros(vals[1] \o vals[2])) > MaxDigits
    THEN NotAFloat
    ELSE [ok |-> TRUE, neg |-> neg, special |-> "",
          int |-> vals[1], frac |-> vals[2],
          exp |-> (IF eNeg THEN 0 - 1 ELSE 1)
                  * (IF Len(StripZeros(vals[3])) > 9 THEN ExponentCap
                     ELSE DigitsNat(StripZeros(vals[3]), 0))]

\* float(s): the grammar of the integer, fraction and exponent parts
ParseChecked(neg, parts, noDot, noExp, eNeg) ==
    IF /\ \A k \in 1 .. 3 : OptDigitPart(parts[k])
       /\ parts[1] # <<>> \/ (~noDot /\ parts[2] # <<>>)
       /\ noExp \/ parts[3] # <<>>
    THEN ParsedNumber(neg, [k \in 1 .. 3 |-> DigitValues(parts[k])], eNeg)
    ELSE NotAFloat

\* float(s): the mantissa split at the point dot (0 if none)
ParseMantissa(neg, mant, dot, noExp, eNeg, eDigits) ==
    ParseChecked(neg,
                 <<IF dot = 0 THEN mant ELSE SubSeq(mant, 1, dot - 1),
                   IF dot = 0 THEN <<>>
                   ELSE SubSeq(mant, dot + 1, Len(mant)),
                   eDigits>>,
                 dot = 0, noExp, eNeg)

\* float(s): the exponent expo and its sign
ParseExponent(neg, mant, noExp, expo) ==
    ParseMantissa(neg, mant, IndexOf(mant, {"."}), noExp,
                  expo # <<>> /\ expo[1] = "-",
                  IF expo # <<>> /\ expo[1] \in {"+", "-"}
                  THEN Tail(expo) ELSE expo)

\* float(s): the number r split at the exponent mark ePos (0 if none)
ParseNumber(neg, r, ePos) ==
    ParseExponent(neg,
                  IF ePos = 0 THEN r ELSE SubSeq(r, 1, ePos - 1),
                  ePos = 0,
                  IF ePos = 0 THEN <<>> ELSE SubSeq(r, ePos + 1, Len(r)))

\* float(s): the text r after the sign, and low, r in lower case
ParseUnsigned(neg, r, low) ==
    CASE low \in {<<"i","n","f">>, <<"i","n","f","i","n","i","t","y">>} ->
            [NotAFloat EXCEPT !.ok = TRUE, !.neg = neg, !.special = "inf"]
      [] low = <<"n","a","n">> ->
            [NotAFloat EXCEPT !.ok = TRUE, !.special = "nan"]
      [] OTHER -> ParseNumber(neg, r, IndexOf(r, {"e", "E"}))

\* the stripped text t without its sign
Unsigned(t) == IF t # <<>> /\ t[1] \in {"+", "-"} THEN Tail(t) ELSE t

\* float(s) for a str: how the text reads as a number.  special is "inf"
\* or "nan" for those words; otherwise the value is
\* (-1)^neg * int.frac * 10^exp
ParseStripped(t) ==
    ParseUnsigned(t # <<>> /\ t[1] = "-", Unsigned(t),
                  [i \in 1 .. Len(Unsigned(t)) |-> ToLower(Unsigned(t)[i])])

\* the characters float() skips around a number: those of str.strip()
\* but for the separators U+001C to U+001F
FloatSpace == Whitespace \ {"U+001C", "U+001D", "U+001E", "U+001F"}

\* s without the FloatSpace characters at its ends
FloatTrim(s) ==
    IF \A i \in 1 .. Len(s) : s[i] \in FloatSpace THEN <<>>
    ELSE SubSeq(s,
                CHOOSE i \in 1 .. Len(s) :
                    s[i] \notin FloatSpace
                    /\ \A j \in 1 .. i - 1 : s[j] \in FloatSpace,
                CHOOSE i \in 1 .. Len(s) :
                    s[i] \notin FloatSpace
                    /\ \A j \in i + 1 .. Len(s) : s[j] \in FloatSpace)

ParseFloat(s) == ParseStripped(FloatTrim(s))

\* float(value) of a number n * 10^exp
NumberFloat(n, exp) ==
    [ok |-> TRUE, neg |-> n < 0, special |-> "",
     int |-> NatDigits(IF n < 0 THEN 0 - n ELSE n),
     frac |-> <<>>, exp |-> exp]

\* float(value) as a parsed number
AsFloat(v) ==
    CASE v.kind = "str" -> ParseFloat(v.text)
      [] v.kind \in {"int", "float", "dec"} ->
           NumberFloat(v.num, IF v.kind = "dec" THEN -2 ELSE 0)
      [] v.kind = "nan" -> [NotAFloat EXCEPT !.ok = TRUE, !.special = "nan"]
      [] OTHER -> NotAFloat

\* float(value) raises TypeError on None and ValueError on text that is
\* not a number
FloatRaises(v) == ~AsFloat(v).ok

\* ds + 1 on a digit sequence
RECURSIVE Increment(_)
Increment(ds) ==
    IF ds = <<>> THEN <<1>>
    ELSE IF ds[Len(ds)] < 9
         THEN [ds EXCEPT ![Len(ds)] = @ + 1]
         ELSE Append(Increment(SubSeq(ds, 1, Len(ds) - 1)), 0)

\* 2 * ds on a digit sequence
Double(ds) ==
    StripZeros([i \in 1 .. Len(ds) + 1 |->
                   (IF i = 1 THEN 0 ELSE (2 * ds[i - 1]) % 10)
                   + (IF i <= Len(ds) /\ ds[i] >= 5 THEN 1 ELSE 0)])

\* ds \div 2 on a digit sequence
Halve(ds) ==
    StripZeros([i \in 1 .. Len(ds) |->
                   (ds[i] + (IF i > 1 /\ ds[i - 1] % 2 = 1 THEN 10 ELSE 0))
                   \div 2])

\* a < b on digit sequences of one length
LessDigits(a, b) ==
    /\ a # b
    /\ \E i \in 1 .. Len(a) :
          a[i] < b[i] /\ \A j \in 1 .. i - 1 : a[j] = b[j]

\* a < b on digit sequences without leading zeros
Less(a, b) ==
    \/ Len(a) < Len(b)
    \/ Len(a) = Len(b) /\ LessDigits(a, b)

\* a - b on digit sequences, b (padded to the length of a) not the larger:
\* a digit borrows when the digits after it are less than those of b
Minus(a, b) ==
    StripZeros([i \in 1 .. Len(a) |->
                   (a[i] + 10
                    - (Zeros(Len(a) - Len(b)) \o b)[i]
                    - (IF LessDigits(SubSeq(a, i + 1, Len(a)),
                                     SubSeq(Zeros(Len(a) - Len(b)) \o b,
                                            i + 1, Len(a)))
                       THEN 1 ELSE 0)) % 10])

\* ds * 2^n, n at most 32; the test on ds has it computed at every step
RECURSIVE Doubles(_, _)
Doubles(ds, n) ==
    IF n = 0 \/ ds = <<0>> THEN ds ELSE Doubles(Double(ds), n - 1)

\* ds * 2^n
RECURSIVE Scaled(_, _)
Scaled(ds, n) ==
    IF n <= 32 THEN Doubles(ds, n) ELSE Scaled(Doubles(ds, 32), n - 32)

\* the binary exponent of num / den: <<num', den', e'>> with
\* num / den * 2^e = num' / den' * 2^e' and 1 <= num' / den' < 2
RECURSIVE ScaleDown(_, _, _)
ScaleDown(num, den, e) ==
    IF Less(num, Double(den)) THEN <<num, den, e>>
    ELSE ScaleDown(num, Double(den), e + 1)

RECURSIVE ScaleDown32(_, _, _)
ScaleDown32(num, den, e) ==
    IF Less(num, Doubles(den, 32)) THEN ScaleDown(num, den, e)
    ELSE ScaleDown32(num, Doubles(den, 32), e + 32)

RECURSIVE Scale(_, _, _)
Scale(num, den, e) ==
    IF Less(num, den) THEN Scale(Double(num), den, e - 1)
    ELSE ScaleDown32(num, den, e)

\* the first n binary digits of num / den (below 2) appended to m, and the
\* remainder: <<m', num'>> with num' / den the part not yet converted; m
\* starts as <<0>>, and the test on it has it computed at every step
RECURSIVE Bits(_, _, _, _)
Bits(num, den, m, n) ==
    IF n = 0 \/ m = <<>> THEN <<m, num>>
    ELSE IF Less(num, den)
    THEN Bits(Double(num), den, Double(m), n - 1)
    ELSE Bits(Double(Minus(num, den)), den, Increment(Double(m)), n - 1)

\* the 53-bit significand nearest to the value: bits[1] holds 53 digits,
\* bits[2] / (2 * den) is the rest, rounded half to even
Significand(bits, den) ==
    IF \/ Less(den, bits[2])
       \/ /\ den = bits[2]
          /\ bits[1][Len(bits[1])] % 2 = 1
    THEN Increment(bits[1])
    ELSE bits[1]

\* ds \div 2^n with the last bit dropped and whether a lower one was set;
\* the test on ds has it computed at every step
RECURSIVE Halves(_, _, _, _)
Halves(ds, n, round, sticky) ==
    IF n = 0 \/ ds = <<>> THEN <<ds, round, sticky>>
    ELSE Halves(Halve(ds), n - 1, ds[Len(ds)] % 2 = 1, sticky \/ round)

\* t[1] rounded half to even on the bits dropped
HalfEven(t) ==
    IF t[2] /\ (t[3] \/ t[1][Len(t[1])] % 2 = 1)
    THEN Increment(t[1]) ELSE t[1]

\* the digits out, of which the last two are the fraction, as text
FixedText(out) ==
    DigitText(SubSeq(out, 1, Len(out) - 2)) \o <<".">>
    \o DigitText(SubSeq(out, Len(out) - 1, Len(out)))

\* f"{x:.2f}" of the double m * 2^k: the hundredths nearest to it
FixedHundredths(h) ==
    FixedText(Zeros(IF Len(h) < 3 THEN 3 - Len(h) ELSE 0) \o h)

\* f"{x:.2f}" of the double with significand m and binary exponent e; a
\* value that rounds to 2^1024 or more, m being 2^53 at exponent 1023, is
\* infinite
FixedDouble(m, e) ==
    IF \/ e > 1023
       \/ e = 1023 /\ m = <<9, 0, 0, 7, 1, 9, 9, 2, 5, 4, 7, 4, 0, 9, 9, 2>>
    THEN <<"i","n","f">>
    ELSE IF e >= 52
    THEN FixedHundredths(Scaled(m, e - 52) \o <<0, 0>>)
    ELSE FixedHundredths(HalfEven(Halves(m \o <<0, 0>>, 52 - e,
                                         FALSE, FALSE)))

\* f"{x:.2f}" of the double nearest to t[1] / t[2] * 2^t[3], the quotient
\* in [1, 2)
FixedNormalized(t) ==
    FixedDouble(Significand(Bits(t[1], t[2], <<0>>, 53), t[2]), t[3])

\* f"{x:.2f}" of the double nearest to d * 10^e, d without leading zeros.
\* A value of 10^309 or more is infinite and one below 10^-3 prints as
\* zero; between them the value is converted as the quotient of two
\* integers
FixedDecimal(d, e) ==
    IF d = <<0>> \/ Len(d) + e < 0 - 2 THEN <<"0",".","0","0">>
    ELSE IF Len(d) + e > 309 THEN <<"i","n","f">>
    ELSE FixedNormalized(Scale(
             IF e >= 0 THEN d \o Zeros(e) ELSE d,
             IF e >= 0 THEN <<1>> ELSE <<1>> \o Zeros(0 - e),
             0))

\* f"{x:.2f}" of a parsed number: float() takes the double nearest to the
\* decimal value and the format prints that double to two places, half
\* to even
Fixed2(f) ==
    CASE f.special = "nan" -> <<"n","a","n">>
      [] f.special = "inf" ->
            (IF f.neg THEN <<"-">> ELSE <<>>) \o <<"i","n","f">>
      [] OTHER ->
            (IF f.neg THEN <<"-">> ELSE <<>>)
            \o FixedDecimal(StripZeros(f.int \o f.frac),
                            f.exp - Len(f.frac))

\* f"{float(value):.2f}" (line 159)
PriceText(v) == Fixed2(AsFloat(v))

\* str(value) of a Decimal with two places
DecimalStr(cents) ==
    (IF cents < 0 THEN <<"-">> ELSE <<>>)
    \o IntStr((IF cents < 0 THEN 0 - cents ELSE cents) \div 100)
    \o <<".">>
    \o IntStr(((IF cents < 0 THEN 0 - cents ELSE cents) % 100) \div 10)
    \o IntStr((IF cents < 0 THEN 0 - cents ELSE cents) % 10)

\* str(value), as the f-strings of format_dataframe_simple interpolate it.
\* The number of a float cell is that of an integer cell, below 2^31 in
\* size, and str() writes such a float as its digits and ".0"
ValueStr(v) ==
    CASE v.kind = "str" -> v.text
      [] v.kind = "int" -> IntStr(v.num)
      [] v.kind = "dec" -> DecimalStr(v.num)
      [] v.kind = "float" -> IntStr(v.num) \o <<".","0">>
      [] v.kind = "nan" -> <<"n","a","n">>
      [] OTHER -> <<"N","o","n","e">>

\* 'col' in row
HasCol(row, col) == \E i \in 1 .. Len(row) : row[i][1] = col

\* row['col']
Col(row, col) == row[CHOOSE i \in 1 .. Len(row) : row[i][1] = col][2]

\* the i-th row of the rows of the given shape that a statement asking for
\* a brand returns; price is the value of price_per_item in a product
\* row; a row of numbers only has NULL for min_quantity where a product
\* row would have it for the price
Row(shape, i, price, brand) ==
    CASE shape = "product" ->
           << <<ColBrand, StrV(brand)>>,
              <<ColProductName, StrV(Sample.name)>>,
              <<ColSize, StrV(Sample.size)>>,
              <<ColColor, StrV(Sample.color)>>,
              <<ColPrice, price>>, <<ColStock, IntV(i)>> >>
      [] shape = "named" ->
           << <<ColBrand, StrV(brand)>>,
              <<ColProductName, StrV(Sample.name)>> >>
      [] shape = "discount" ->
           << <<ColBrand, StrV(brand)>>, <<ColMinQuantity, IntV(i)>> >>
      [] OTHER ->
           << <<ColId, IntV(i)>>,
              <<ColMinQuantity,
                IF price.kind = "null" THEN NullV ELSE IntV(2)>> >>

\* prices other than a DECIMAL amount that a statement may return: NULL,
\* text that is not a number, text that is one, an integer
OddPrices ==
    { NullV, StrV(<<"n","/","a">>), StrV(<<" ","1","9",".","5">>),
      IntV(20) }

\* the n rows of one brand; row oddAt (0 for none) holds the price odd,
\* the other rows a DECIMAL amount
Table(shape, n, oddAt, odd, brand) ==
    [i \in 1 .. n |->
        Row(shape, i, IF i = oddAt THEN odd ELSE DecV(1950), brand)]

\* the text typed by request r: the brand it asks about
Brand(r) == Sample.brand \o IntStr(r)

\* the statement the translation makes of the question q
Statement(q) ==
    SelectInventory
    \o <<" ","W","H","E","R","E"," ","b","r","a","n","d"," ","="," ","'">>
    \o q \o <<"'">>

\* what the database may hold: for the statement of every brand asked
\* about, maxRows rows of that brand, of which a call of fetchall()
\* returns the first ones
Tables(maxRows) ==
    {[s \in {Statement(Brand(r)) : r \in Requests} |->
         Table(shape, maxRows, oddAt, odd,
               Brand(CHOOSE r \in Requests : Statement(Brand(r)) = s))] :
        shape \in {"product", "named", "discount", "levels"},
        oddAt \in {0, 1, maxRows}, odd \in OddPrices}

\* pd.DataFrame(results) (line 122): a column holding numbers and NULL
\* only, with a number among them and not integers alone, becomes a float
\* column, NULL being NaN; every other column of the rows modelled keeps
\* its cells
ColumnCells(rows, j) == {rows[i][j][2] : i \in 1 .. Len(rows)}

IsUpcast(rows, j) ==
    /\ \A v \in ColumnCells(rows, j) :
          v.kind \in {"int", "float", "nan", "null"}
    /\ \E v \in ColumnCells(rows, j) : v.kind \in {"int", "float", "nan"}
    /\ \E v \in ColumnCells(rows, j) : v.kind # "int"

DataFrame(rows) ==
    [i \in 1 .. Len(rows) |->
        [j \in 1 .. Len(rows[i]) |->
            <<rows[i][j][1],
              IF IsUpcast(rows, j)
              THEN (CASE rows[i][j][2].kind = "int" ->
                            FloatV(rows[i][j][2].num)
                      [] rows[i][j][2].kind = "null" -> NaNV
                      [] OTHER -> rows[i][j][2])
              ELSE rows[i][j][2]>>]]

\* df.iterrows() (line 153): a row is a Series of one dtype.  In a frame
\* whose columns are all of numbers and one of them of floats, the cells
\* of the integer columns come out as floats; in any other frame the
\* cells come out as they are
iterrows(df) ==
    IF /\ \A i \in 1 .. Len(df) : \A j \in 1 .. Len(df[i]) :
             df[i][j][2].kind \in {"int", "float", "nan"}
       /\ \E i \in 1 .. Len(df) : \E j \in 1 .. Len(df[i]) :
             df[i][j][2].kind # "int"
    THEN [i \in 1 .. Len(df) |->
             [j \in 1 .. Len(df[i]) |->
                 <<df[i][j][1],
                   IF df[i][j][2].kind = "int"
                   THEN FloatV(df[i][j][2].num) ELSE df[i][j][2]>>]]
    ELSE df

\* df.head(n)
\* the rows held for the last of the statements sent, none for a
\* statement the database holds nothing for
Rows(tbl, sent) ==
    IF sent # <<>> /\ sent[Len(sent)].sql \in DOMAIN tbl
    THEN tbl[sent[Len(sent)].sql]
    ELSE <<>>

HeadRows(rows, n) == SubSeq(rows, 1, IF Len(rows) < n THEN Len(rows) ELSE n)

PreviewRows == 10

(***************************************************************************)
(* format_dataframe_simple: the deterministic fallback                     *)
(***************************************************************************)
IsProductRow(row) == HasCol(row, ColBrand) /\ HasCol(row, ColProductName)

\* the row whose rendering raises: float(row['price_per_item']) at line 159
RowRaises(row) ==
    /\ IsProductRow(row)
    /\ HasCol(row, ColPrice)
    /\ FloatRaises(Col(row, ColPrice))

\* lines 156-161, after filter(None, details)
Details(row) ==
    (IF HasCol(row, ColSize)
        THEN << FallbackText.size \o ValueStr(Col(row, ColSize)) >>
        ELSE <<>>)
    \o (IF HasCol(row, ColColor)
        THEN << FallbackText.color \o ValueStr(Col(row, ColColor)) >>
        ELSE <<>>)
    \o (IF HasCol(row, ColPrice)
        THEN << FallbackText.price \o PriceText(Col(row, ColPrice)) >>
        ELSE <<>>)
    \o (IF HasCol(row, ColStock)
        THEN << FallbackText.stock \o ValueStr(Col(row, ColStock))
                \o FallbackText.units >>
        ELSE <<>>)

\* lines 154-165: the text one row adds to result_text
RowText(row) ==
    IF IsProductRow(row)
    THEN FallbackText.bold \o ValueStr(Col(row, ColBrand)) \o FallbackText.dash
              \o ValueStr(Col(row, ColProductName)) \o FallbackText.boldEnd
              \o Join(FallbackText.sep, Details(row)) \o FallbackText.rowEnd
    ELSE Join(FallbackText.pipe,
              [i \in 1 .. Len(row) |->
                  row[i][1] \o FallbackText.colon \o ValueStr(row[i][2])])
         \o FallbackText.rowEnd

\* df.empty (line 148) holds of a frame without rows or without columns
format_dataframe_simple(df) ==
    IF \A i \in 1 .. Len(df) : df[i] = <<>>
    THEN [raised |-> FALSE, text |-> FallbackText.none]
    ELSE IF \E i \in 1 .. Len(df) : RowRaises(iterrows(df)[i])
    THEN [raised |-> TRUE, text |-> <<>>]
    ELSE [raised |-> FALSE,
          text |-> FoundPre \o IntStr(Len(df)) \o FoundPost
                   \o Concat([i \in 1 .. Len(df) |->
                                 RowText(iterrows(df)[i])])]

(***************************************************************************)
(* The language model: self.model.generate_content(prompt)                 *)
(***************************************************************************)
ModelRaises == [raised |-> TRUE, text |-> <<>>]

ModelReturns(t) == [raised |-> FALSE, text |-> t]

\* raw outputs of the translation call on the question q: a tagged fence
\* around the statement, the bare statement with surrounding blanks, a
\* refusal in prose
TranslationTexts(q) ==
    { FenceSql \o <<"\n">> \o Statement(q) \o <<"\n">> \o Fence,
      <<" ">> \o Statement(q) \o <<"\n">>,
      ErrorPrefix \o <<":"," ","n","o">> }

\* outputs of the formatting call: prose needing repair, blanks only
FormattingTexts ==
    { <<" ","O","k",".","W","e"," ","h","a","v","e","2","X","L","\n">>,
      <<" ","\n">> }

\* str(e) of the exception a failed call raises
ErrorTexts == { <<"E","1">>, <<>> }

(***************************************************************************)
(* natural_language_to_sql (lines 80-91)                                   *)
(***************************************************************************)
natural_language_to_sql_otherPrefix(outcome, cause) ==
    IF outcome.raised
    THEN <<"F","a","i","l","e","d",":"," ">> \o cause
    ELSE ExtractSql(outcome.text)

natural_language_to_sql(outcome, cause) ==
    IF outcome.raised
    THEN ErrorGeneratingSql \o cause
    ELSE ExtractSql(outcome.text)

(***************************************************************************)
(* format_response (lines 114-144)                                         *)
(***************************************************************************)
\* the result carries the returned text, whether an exception left the
\* function, and how many model calls were made with how many preview rows
format_response(res, err, outcome) ==
    IF Truthy(err)
    THEN [raised |-> FALSE, text |-> ApologyPrefix \o err.val,
          calls |-> 0, preview |-> 0, fellBack |-> FALSE]
    ELSE IF ~Truthy(res)
    THEN [raised |-> FALSE, text |-> NoMatchText,
          calls |-> 0, preview |-> 0, fellBack |-> FALSE]
    ELSE IF ~outcome.raised
    THEN [raised |-> FALSE,
          text |-> clean_response_text(Strip(outcome.text)),
          calls |-> 1, preview |-> Len(HeadRows(res.val, PreviewRows)),
          fellBack |-> FALSE]
    ELSE LET fb == format_dataframe_simple(DataFrame(res.val))
         IN  [raised |-> fb.raised, text |-> fb.text,
              calls |-> 1, preview |-> Len(HeadRows(res.val, PreviewRows)),
              fellBack |-> TRUE]

(***************************************************************************)
(* Connections (mysql.connector.connect, lines 36-42, 93-112, 210-245)     *)
(***************************************************************************)
\* a connection object that connect() has not created yet
NoConnection ==
    [state |-> "none", users |-> {}, statements |-> <<>>, closeCalls |-> 0]

\* connect() builds a new object on every call, and a run of main() calls
\* it at most once in execute_query (call 1) and once in the Quick Stats
\* panel (call 2), so the object is named after the request and the call
NewConnectionId(r, call) == 2 * (r - 1) + call

ConnIds == 1 .. 2 * NumRequests

\* the object after connect() handed it to request r
Connected(c, r) ==
    [c EXCEPT !.state = "open", !.users = @ \cup {r}]

\* conn.is_connected()
is_connected(c) == c.state = "open"

\* conn.close() that returns
Close(c) == [c EXCEPT !.state = "closed", !.closeCalls = @ + 1]

\* conn.close() that raises: the call was made, the object is not closed
CloseRaised(c) == [c EXCEPT !.closeCalls = @ + 1]

\* a driver call that raised, with or without the loss of the link to the
\* server, after which is_connected() is false
AfterRaise(c, lost) == IF lost THEN [c EXCEPT !.state = "lost"] ELSE c

\* st.error / st.warning / st.success: one more element on the page
Show(lg, by, text) ==
    [lg EXCEPT !.shown = Append(@, [by |-> by, text |-> text])]

\* what connect() may do: return a connection, raise mysql.connector.Error
\* or raise any other exception
ConnectOutcomes == {"connected", "mysql.connector.Error", "Exception"}

\* lines 36-42: only mysql.connector.Error is caught, shown and turned
\* into None; any other exception leaves get_db_connection
get_db_connection(lg, outcome, cause) ==
    CASE outcome = "connected" ->
            [raised |-> FALSE, connected |-> TRUE, log |-> lg]
      [] outcome = "mysql.connector.Error" ->
            [raised |-> FALSE, connected |-> FALSE,
             log |-> Show(lg, "st.error", ConnFailedShown \o cause)]
      [] OTHER ->
            [raised |-> TRUE, connected |-> FALSE, log |-> lg]

(***************************************************************************)
(* State                                                                   *)
(***************************************************************************)
NoLog ==
    [translateCalls |-> 0, translateRaised |-> FALSE,
     branch |-> "none", connects |-> 0, cursors |-> 0, executes |-> 0,
     returned |-> FALSE, formatted |-> FALSE,
     formatCalls |-> 0, formatRaised |-> FALSE, fellBack |-> FALSE,
     preview |-> 0, shown |-> <<>>,
     statsConnects |-> 0, statsQueries |-> 0, metrics |-> 0]

\* lines 27-34: the configuration and the model handle set by __init__
Instance ==
    [db_config |-> "env", model |-> "gemini-1.5-flash-latest"]

\* non-empty and empty text of the input box of request r
Questions(r) == { Brand(r), <<>> }

PipelineInit(issued, tables, faults) ==
    /\ store_ai = NoneV
    /\ session = issued
    /\ table \in tables
    /\ pc = [r \in Requests |-> "idle"]
    /\ question = [r \in Requests |-> <<>>]
    /\ sql_query = [r \in Requests |-> <<>>]
    /\ conn = [r \in Requests |-> 0]
    /\ fetched = [r \in Requests |-> NoneV]
    /\ exc = [r \in Requests |-> NoneV]
    /\ results = [r \in Requests |-> NoneV]
    /\ error = [r \in Requests |-> NoneV]
    /\ answer = [r \in Requests |-> NoneV]
    /\ statsConn = [r \in Requests |-> 0]
    /\ connections = [c \in ConnIds |-> NoConnection]
    /\ log = [r \in Requests |-> NoLog]
    /\ faultsLeft = faults

FnIdle ==
    /\ fnIn = <<>>
    /\ fnOnce = <<>>
    /\ fnTwice = <<>>
    /\ fnPc = "off"

\* one run of main() at a time on the instance
Init == PipelineInit({1}, Tables(MaxRows), MaxFaults) /\ FnIdle

\* the host runs main() for every request concurrently, on a database of
\* product rows whose price is a DECIMAL amount or NULL
InitConc ==
    /\ PipelineInit(Requests,
                    {t \in Tables(MaxConcRows) :
                        \A s \in DOMAIN t : \A i \in 1 .. Len(t[s]) :
                            /\ HasCol(t[s][i], ColPrice)
                            /\ Col(t[s][i], ColPrice).kind
                                  \in {"dec", "null"}},
                    MaxConcFaults)
    /\ FnIdle

(***************************************************************************)
(* main(): the session state (lines 176-177) and the button handler        *)
(* (lines 184-208)                                                         *)
(***************************************************************************)
\* line 176: if 'store_ai' not in st.session_state
CheckStore(r) ==
    /\ r \in session
    /\ pc[r] = "idle"
    /\ pc' = [pc EXCEPT ![r] = IF store_ai = NoneV THEN "create" ELSE "ask"]
    /\ UNCHANGED <<store_ai, session, table, question, sql_query, conn,
                   fetched, exc, results, error, answer, statsConn,
                   connections, log, faultsLeft>>
    /\ UNCHANGED fnVars

\* line 177: st.session_state.store_ai = TShirtStoreAI().  The
\* constructor reads the environment and makes the model handle (lines
\* 27-34); every object it makes holds the same configuration
CreateStore(r) ==
    /\ pc[r] = "create"
    /\ store_ai' = Some(Instance)
    /\ pc' = [pc EXCEPT ![r] = "ask"]
    /\ UNCHANGED <<session, table, question, sql_query, conn, fetched, exc,
                   results, error, answer, statsConn, connections, log,
                   faultsLeft>>
    /\ UNCHANGED fnVars

\* lines 184-188 and 207-208: question = st.text_input(...), the text q of
\* the input box on every run, and the button, pressed or not
Ask(r) ==
    /\ pc[r] = "ask"
    /\ \E pressed \in BOOLEAN, q \in Questions(r) :
        /\ question' = [question EXCEPT ![r] = q]
        /\ IF pressed /\ q # <<>>
           THEN /\ pc' = [pc EXCEPT ![r] = "translating"]
                /\ log' = log
           ELSE /\ log' = [log EXCEPT ![r] =
                             IF pressed
                             THEN Show(@, "st.warning", Messages.warning)
                             ELSE @]
                /\ pc' = [pc EXCEPT ![r] = "stats"]
    /\ UNCHANGED <<store_ai, session, table, sql_query, conn, fetched, exc,
                   results, error, answer, statsConn, connections,
                   faultsLeft>>
    /\ UNCHANGED fnVars

\* line 190: sql_query = store_ai.natural_language_to_sql(question)
Translate(r) ==
    /\ pc[r] = "translating"
    /\ \E outcome \in {ModelRaises} \cup
                      {ModelReturns(t) : t \in TranslationTexts(question[r])},
          cause \in ErrorTexts :
        /\ outcome.raised \/ cause = <<>>
        /\ outcome.raised => faultsLeft > 0
        /\ faultsLeft' = faultsLeft - (IF outcome.raised THEN 1 ELSE 0)
        /\ sql_query' = [sql_query EXCEPT
                            ![r] = natural_language_to_sql(outcome, cause)]
        /\ log' = [log EXCEPT ![r].translateCalls = @ + 1,
                              ![r].translateRaised = outcome.raised]
    /\ pc' = [pc EXCEPT ![r] = "translated"]
    /\ UNCHANGED <<store_ai, session, table, question, conn, fetched, exc,
                   results, error, answer, statsConn, connections>>
    /\ UNCHANGED fnVars

\* lines 192-194: if sql_query.startswith("Error"): st.error(sql_query)
Dispatch(r) ==
    /\ pc[r] = "translated"
    /\ IF StartsWith(sql_query[r], ErrorPrefix)
       THEN /\ answer' = [answer EXCEPT ![r] = Some(sql_query[r])]
            /\ log' = [log EXCEPT ![r] =
                          Show([@ EXCEPT !.branch = "failed"],
                               "st.error", sql_query[r])]
            /\ pc' = [pc EXCEPT ![r] = "stats"]
       ELSE /\ log' = [log EXCEPT ![r].branch = "execute"]
            /\ pc' = [pc EXCEPT ![r] = "connect"]
            /\ answer' = answer
    /\ UNCHANGED <<store_ai, session, table, question, sql_query, conn,
                   fetched, exc, results, error, statsConn, connections,
                   faultsLeft>>
    /\ UNCHANGED fnVars

(***************************************************************************)
(* execute_query (lines 93-112), one action per call on the driver         *)
(***************************************************************************)
\* line 109: a driver call of the try block raised, on the connection
\* object c and with the log lg of that call; the exception is caught and
\* control is at the head of the except block, nothing returned yet
Raised(r, c, lg) ==
    /\ faultsLeft > 0
    /\ faultsLeft' = faultsLeft - 1
    /\ \E cause \in ErrorTexts, lost \in BOOLEAN :
        /\ connections' =
              [connections EXCEPT ![conn[r]] = AfterRaise(c, lost)]
        /\ exc' = [exc EXCEPT ![r] = Some(cause)]
    /\ log' = [log EXCEPT ![r] = lg]
    /\ pc' = [pc EXCEPT ![r] = "except"]
    /\ UNCHANGED <<results, error>>

\* line 112: return None, str(e)
ReturnError(r) ==
    /\ results' = [results EXCEPT ![r] = NoneV]
    /\ error' = [error EXCEPT ![r] = exc[r]]
    /\ log' = [log EXCEPT ![r].returned = TRUE]
    /\ pc' = [pc EXCEPT ![r] = "format"]

\* line 110: if conn.is_connected(), a ping of the server that answers
\* False where it fails; when False, line 112 follows
IsConnected(r) ==
    /\ pc[r] = "except"
    /\ IF is_connected(connections[conn[r]])
       THEN /\ pc' = [pc EXCEPT ![r] = "exceptclose"]
            /\ UNCHANGED <<results, error, log>>
       ELSE ReturnError(r)
    /\ UNCHANGED <<store_ai, session, table, question, sql_query, conn,
                   fetched, exc, answer, statsConn, connections,
                   faultsLeft>>
    /\ UNCHANGED fnVars

\* lines 111-112: conn.close() in the except block, then the return; a
\* close() that raises there leaves execute_query and main()
HandlerClose(r) ==
    /\ pc[r] = "exceptclose"
    /\ \/ /\ connections' = [connections EXCEPT ![conn[r]] = Close(@)]
          /\ ReturnError(r)
          /\ faultsLeft' = faultsLeft
       \/ /\ faultsLeft > 0
          /\ faultsLeft' = faultsLeft - 1
          /\ connections' =
                [connections EXCEPT ![conn[r]] = CloseRaised(@)]
          /\ pc' = [pc EXCEPT ![r] = "fault"]
          /\ UNCHANGED <<results, error, log>>
    /\ UNCHANGED <<store_ai, session, table, question, sql_query, conn,
                   fetched, exc, answer, statsConn>>
    /\ UNCHANGED fnVars

\* lines 95-97: conn = self.get_db_connection(); if not conn: return
GetDbConnection(r) ==
    /\ pc[r] = "connect"
    /\ \E outcome \in ConnectOutcomes, cause \in ErrorTexts :
        LET g == get_db_connection([log[r] EXCEPT !.connects = @ + 1],
                                   outcome, cause)
            id == NewConnectionId(r, 1)
        IN  /\ outcome = "connected" => cause = <<>>
            /\ outcome # "connected" => faultsLeft > 0
            /\ faultsLeft' =
                  faultsLeft - (IF outcome = "connected" THEN 0 ELSE 1)
            /\ CASE g.connected ->
                      /\ conn' = [conn EXCEPT ![r] = id]
                      /\ connections' =
                            [connections EXCEPT ![id] = Connected(@, r)]
                      /\ log' = [log EXCEPT ![r] = g.log]
                      /\ pc' = [pc EXCEPT ![r] = "cursor"]
                      /\ UNCHANGED <<results, error>>
                 [] g.raised ->
                      /\ log' = [log EXCEPT ![r] = g.log]
                      /\ pc' = [pc EXCEPT ![r] = "fault"]
                      /\ UNCHANGED <<conn, connections, results, error>>
                 [] OTHER ->
                      /\ results' = [results EXCEPT ![r] = NoneV]
                      /\ error' = [error EXCEPT ![r] = Some(ConnFailedMsg)]
                      /\ log' = [log EXCEPT
                                    ![r] = [g.log EXCEPT !.returned = TRUE]]
                      /\ pc' = [pc EXCEPT ![r] = "format"]
                      /\ UNCHANGED <<conn, connections>>
    /\ UNCHANGED <<store_ai, session, table, question, sql_query, fetched, exc,
                   answer, statsConn>>
    /\ UNCHANGED fnVars

\* line 100: cursor = conn.cursor(dictionary=True)
OpenCursor(r) ==
    /\ pc[r] = "cursor"
    /\ LET lg == [log[r] EXCEPT !.cursors = @ + 1]
       IN  \/ /\ log' = [log EXCEPT ![r] = lg]
              /\ pc' = [pc EXCEPT ![r] = "execute"]
              /\ UNCHANGED <<results, error, exc, connections, faultsLeft>>
           \/ Raised(r, connections[conn[r]], lg)
    /\ UNCHANGED <<store_ai, session, table, question, sql_query, conn,
                   fetched, answer, statsConn>>
    /\ UNCHANGED fnVars

\* line 101: cursor.execute(sql_query)
ExecuteStatement(r) ==
    /\ pc[r] = "execute"
    /\ LET lg == [log[r] EXCEPT !.executes = @ + 1]
           sent == [connections[conn[r]] EXCEPT !.statements =
                       Append(@, [by |-> r, sql |-> sql_query[r]])]
       IN  \/ /\ connections' = [connections EXCEPT ![conn[r]] = sent]
              /\ log' = [log EXCEPT ![r] = lg]
              /\ pc' = [pc EXCEPT ![r] = "fetch"]
              /\ UNCHANGED <<results, error, exc, faultsLeft>>
           \/ Raised(r, sent, lg)
    /\ UNCHANGED <<store_ai, session, table, question, sql_query, conn,
                   fetched, answer, statsConn>>
    /\ UNCHANGED fnVars

\* line 102: results = cursor.fetchall(), rows of the statement that the
\* connection carried last
FetchAll(r) ==
    /\ pc[r] = "fetch"
    /\ \/ \E k \in 0 .. Len(Rows(table, connections[conn[r]].statements)) :
            /\ fetched' =
                  [fetched EXCEPT ![r] =
                      Some(HeadRows(Rows(table,
                                         connections[conn[r]].statements),
                                    k))]
            /\ pc' = [pc EXCEPT ![r] = "closecursor"]
            /\ UNCHANGED <<results, error, exc, connections, log,
                           faultsLeft>>
       \/ /\ Raised(r, connections[conn[r]], log[r])
          /\ fetched' = fetched
    /\ UNCHANGED <<store_ai, session, table, question, sql_query, conn,
                   answer, statsConn>>
    /\ UNCHANGED fnVars

\* line 104: cursor.close()
CloseCursor(r) ==
    /\ pc[r] = "closecursor"
    /\ \/ /\ pc' = [pc EXCEPT ![r] = "closeconn"]
          /\ UNCHANGED <<results, error, exc, connections, log,
                         faultsLeft>>
       \/ Raised(r, connections[conn[r]], log[r])
    /\ UNCHANGED <<store_ai, session, table, question, sql_query, conn,
                   fetched, answer, statsConn>>
    /\ UNCHANGED fnVars

\* lines 105-107: conn.close(); return results, None
CloseConn(r) ==
    /\ pc[r] = "closeconn"
    /\ \/ /\ connections' = [connections EXCEPT ![conn[r]] = Close(@)]
          /\ results' = [results EXCEPT ![r] = fetched[r]]
          /\ error' = [error EXCEPT ![r] = NoneV]
          /\ log' = [log EXCEPT ![r].returned = TRUE]
          /\ pc' = [pc EXCEPT ![r] = "format"]
          /\ UNCHANGED <<exc, faultsLeft>>
       \/ Raised(r, CloseRaised(connections[conn[r]]), log[r])
    /\ UNCHANGED <<store_ai, session, table, question, sql_query, conn,
                   fetched, answer, statsConn>>
    /\ UNCHANGED fnVars

\* lines 196-199: response = store_ai.format_response(...); st.success
Format(r) ==
    /\ pc[r] = "format"
    /\ \E outcome \in {ModelRaises} \cup
                      {ModelReturns(t) : t \in FormattingTexts} :
        LET f == format_response(results[r], error[r], outcome)
            failed == f.calls > 0 /\ outcome.raised
            lg == [log[r] EXCEPT
                      !.formatted = TRUE,
                      !.formatCalls = @ + f.calls,
                      !.formatRaised = failed,
                      !.fellBack = f.fellBack,
                      !.preview = f.preview]
        IN  /\ failed => faultsLeft > 0
            /\ faultsLeft' = faultsLeft - (IF failed THEN 1 ELSE 0)
            /\ IF f.raised
               THEN /\ log' = [log EXCEPT ![r] = lg]
                    /\ pc' = [pc EXCEPT ![r] = "fault"]
                    /\ answer' = answer
               ELSE /\ log' = [log EXCEPT
                                  ![r] = Show(lg, "st.success", f.text)]
                    /\ pc' = [pc EXCEPT ![r] = "stats"]
                    /\ answer' = [answer EXCEPT ![r] = Some(f.text)]
    /\ UNCHANGED <<store_ai, session, table, question, sql_query, conn,
                   fetched, exc, results, error, statsConn, connections>>
    /\ UNCHANGED fnVars

(***************************************************************************)
(* main(): the Quick Stats panel (lines 210-245), which every run of       *)
(* main() reaches once the button handler has ended without an exception   *)
(***************************************************************************)
\* lines 244-245: except Exception as e: st.error(...).  The connection
\* object c of the panel is not closed there.
StatsRaised(r, c, lg) ==
    /\ faultsLeft > 0
    /\ faultsLeft' = faultsLeft - 1
    /\ \E cause \in ErrorTexts, lost \in BOOLEAN :
        /\ connections' =
              [connections EXCEPT ![statsConn[r]] = AfterRaise(c, lost)]
        /\ log' = [log EXCEPT
                      ![r] = Show(lg, "st.error", Messages.statsError \o cause)]
    /\ pc' = [pc EXCEPT ![r] = "end"]

\* lines 213-214 and 242-245: conn = ....get_db_connection(); if conn:
StatsConnect(r) ==
    /\ pc[r] = "stats"
    /\ \E outcome \in ConnectOutcomes, cause \in ErrorTexts :
        LET g == get_db_connection(
                     [log[r] EXCEPT !.statsConnects = @ + 1], outcome, cause)
            id == NewConnectionId(r, 2)
        IN  /\ outcome = "connected" => cause = <<>>
            /\ outcome # "connected" => faultsLeft > 0
            /\ faultsLeft' =
                  faultsLeft - (IF outcome = "connected" THEN 0 ELSE 1)
            /\ CASE g.connected ->
                      /\ statsConn' = [statsConn EXCEPT ![r] = id]
                      /\ connections' =
                            [connections EXCEPT ![id] = Connected(@, r)]
                      /\ log' = [log EXCEPT ![r] = g.log]
                      /\ pc' = [pc EXCEPT ![r] = "statscursor"]
                 [] g.raised ->
                      /\ log' = [log EXCEPT ![r] =
                                    Show(g.log, "st.error",
                                         Messages.statsError \o cause)]
                      /\ pc' = [pc EXCEPT ![r] = "end"]
                      /\ UNCHANGED <<statsConn, connections>>
                 [] OTHER ->
                      /\ log' = [log EXCEPT ![r] =
                                    Show(g.log, "st.error",
                                         Messages.statsConnFailed)]
                      /\ pc' = [pc EXCEPT ![r] = "end"]
                      /\ UNCHANGED <<statsConn, connections>>
    /\ UNCHANGED <<store_ai, session, table, question, sql_query, conn,
                   fetched, exc, results, error, answer>>
    /\ UNCHANGED fnVars

\* line 215: cursor = conn.cursor(dictionary=True)
StatsCursor(r) ==
    /\ pc[r] = "statscursor"
    /\ \/ /\ pc' = [pc EXCEPT ![r] = "statsexecute"]
          /\ UNCHANGED <<connections, log, faultsLeft>>
       \/ StatsRaised(r, connections[statsConn[r]], log[r])
    /\ UNCHANGED <<store_ai, session, table, question, sql_query, conn,
                   fetched, exc, results, error, answer, statsConn>>
    /\ UNCHANGED fnVars

\* lines 226-227: cursor.execute(query), for the next of the statements
StatsExecute(r) ==
    /\ pc[r] = "statsexecute"
    /\ LET sent == [connections[statsConn[r]] EXCEPT !.statements =
                       Append(@, [by |-> r,
                                  sql |-> StatsSql[log[r].statsQueries + 1]])]
       IN  \/ /\ connections' = [connections EXCEPT ![statsConn[r]] = sent]
              /\ pc' = [pc EXCEPT ![r] = "statsfetch"]
              /\ UNCHANGED <<log, faultsLeft>>
           \/ StatsRaised(r, sent, log[r])
    /\ UNCHANGED <<store_ai, session, table, question, sql_query, conn,
                   fetched, exc, results, error, answer, statsConn>>
    /\ UNCHANGED fnVars

\* lines 228-232: result = cursor.fetchone(); stats[key] = ...; and back
\* to the head of the loop
StatsFetchOne(r) ==
    /\ pc[r] = "statsfetch"
    /\ \/ /\ log' = [log EXCEPT ![r].statsQueries = @ + 1]
          /\ pc' = [pc EXCEPT ![r] =
                       IF log[r].statsQueries + 1 < Len(StatsSql)
                       THEN "statsexecute" ELSE "statsclosecursor"]
          /\ UNCHANGED <<connections, faultsLeft>>
       \/ StatsRaised(r, connections[statsConn[r]], log[r])
    /\ UNCHANGED <<store_ai, session, table, question, sql_query, conn,
                   fetched, exc, results, error, answer, statsConn>>
    /\ UNCHANGED fnVars

\* line 234: cursor.close()
StatsCloseCursor(r) ==
    /\ pc[r] = "statsclosecursor"
    /\ \/ /\ pc' = [pc EXCEPT ![r] = "statscloseconn"]
          /\ UNCHANGED <<connections, log, faultsLeft>>
       \/ StatsRaised(r, connections[statsConn[r]], log[r])
    /\ UNCHANGED <<store_ai, session, table, question, sql_query, conn,
                   fetched, exc, results, error, answer, statsConn>>
    /\ UNCHANGED fnVars

\* lines 235-241: conn.close() and the five st.metric calls
StatsCloseConn(r) ==
    /\ pc[r] = "statscloseconn"
    /\ \/ /\ connections' = [connections EXCEPT ![statsConn[r]] = Close(@)]
          /\ log' = [log EXCEPT ![r].metrics = Len(StatsSql)]
          /\ pc' = [pc EXCEPT ![r] = "end"]
          /\ faultsLeft' = faultsLeft
       \/ StatsRaised(r, CloseRaised(connections[statsConn[r]]), log[r])
    /\ UNCHANGED <<store_ai, session, table, question, sql_query, conn,
                   fetched, exc, results, error, answer, statsConn>>
    /\ UNCHANGED fnVars

Next ==
    \E r \in Requests :
        \/ CheckStore(r)
        \/ CreateStore(r)
        \/ Ask(r)
        \/ Translate(r)
        \/ Dispatch(r)
        \/ GetDbConnection(r)
        \/ OpenCursor(r)
        \/ ExecuteStatement(r)
        \/ FetchAll(r)
        \/ CloseCursor(r)
        \/ CloseConn(r)
        \/ Format(r)
        \/ StatsConnect(r)
        \/ StatsCursor(r)
        \/ StatsExecute(r)
        \/ StatsFetchOne(r)
        \/ StatsCloseCursor(r)
        \/ StatsCloseConn(r)
        \/ IsConnected(r)
        \/ HandlerClose(r)

Spec == Init /\ [][Next]_vars

SpecConc == InitConc /\ [][Next]_vars

(***************************************************************************)
(* The pure text functions, applied to bounded inputs                      *)
(***************************************************************************)
\* all concatenations of at most n pieces
RECURSIVE Compositions(_, _)
Compositions(pieces, n) ==
    IF n = 0 THEN { <<>> }
    ELSE LET shorter == Compositions(pieces, n - 1)
         IN  shorter \cup {p \o s : p \in pieces, s \in shorter}

FencePieces ==
    { Fence, FenceSql, <<Backtick>>, <<"\n">>, <<" ">>, <<"U+00A0">>,
      <<"S">> }

\* the fenced example of the specification
FencedExample ==
    FenceSql \o <<"\n">> \o SelectInventory \o <<"\n">> \o Fence

RawOutputs == Compositions(FencePieces, MaxPieces) \cup {FencedExample}

CleanAlphabet ==
    { <<".">>, <<"A">>, <<"a">>, <<"1">>, <<"U+0663">>, <<" ">> }

CleanInputs == Compositions(CleanAlphabet, MaxCleanLen)

PipelineIdle == PipelineInit({}, {<<>>}, 0)

InitExtract ==
    /\ PipelineIdle
    /\ fnIn \in RawOutputs
    /\ fnOnce = <<>>
    /\ fnTwice = <<>>
    /\ fnPc = "raw"

\* lines 81-88 on a model call that returned fnIn
Extract ==
    /\ fnPc = "raw"
    /\ fnOnce' = natural_language_to_sql(ModelReturns(fnIn), <<>>)
    /\ fnPc' = "extracted"
    /\ UNCHANGED <<fnIn, fnTwice>>
    /\ UNCHANGED pipelineVars

NextExtract == Extract

SpecExtract == InitExtract /\ [][NextExtract]_vars

InitClean ==
    /\ PipelineIdle
    /\ fnIn \in CleanInputs
    /\ fnOnce = <<>>
    /\ fnTwice = <<>>
    /\ fnPc = "text"

CleanOnce ==
    /\ fnPc = "text"
    /\ fnOnce' = clean_response_text(fnIn)
    /\ fnPc' = "once"
    /\ UNCHANGED <<fnIn, fnTwice>>
    /\ UNCHANGED pipelineVars

CleanTwice ==
    /\ fnPc = "once"
    /\ fnTwice' = clean_response_text(fnOnce)
    /\ fnPc' = "twice"
    /\ UNCHANGED <<fnIn, fnOnce>>
    /\ UNCHANGED pipelineVars

NextClean == CleanOnce \/ CleanTwice

SpecClean == InitClean /\ [][NextClean]_vars
(***************************************************************************)
(* Properties                                                              *)
(***************************************************************************)
\* the run of main() is in or past the Quick Stats panel
InStats(r) ==
    pc[r] \in {"stats", "statscursor", "statsexecute", "statsfetch",
               "statsclosecursor", "statscloseconn", "end"}

\* the button handler took one of its two branches and ended without an
\* exception: the Done state of the pipeline
HandlerDone(r) == InStats(r) /\ log[r].branch # "none"

\* an exception left main()
Faulted(r) == pc[r] = "fault"

\* C1: every pipeline run ends in Done with a non-empty answer, and no
\* exception leaves the handler, whatever calls were made to fail.
C1_AlwaysNonEmptyAnswer ==
    \A r \in Requests :
        /\ ~Faulted(r)
        /\ HandlerDone(r) => Truthy(answer[r])

\* C2: once a call of execute_query on a connection it acquired has
\* ended, by its return on the success path, by its return from the
\* except block or by an exception, close() has been called on that
\* connection and it is closed: no call leaves its connection open.
C2_ConnectionClosedAfterReturn ==
    \A r \in Requests :
        (conn[r] # 0 /\ (log[r].returned \/ Faulted(r))) =>
            /\ connections[conn[r]].closeCalls >= 1
            /\ connections[conn[r]].state = "closed"

\* C3: a failed translation call is made once and leads straight to Done
\* with the error text shown; execute_query and format_response are not
\* called, so no connection is opened, no cursor made and no statement
\* executed for the request, and no formatting call is made.  The one
\* connection the run of main() may hold is that of the Quick Stats
\* panel, which carries the panel's own statements and never the query.
C3_TranslationFailureShortCircuits ==
    \A r \in Requests :
        log[r].translateRaised =>
            /\ pc[r] = "translated" \/ InStats(r)
            /\ log[r].translateCalls = 1
            /\ log[r].connects = 0
            /\ log[r].cursors = 0
            /\ log[r].executes = 0
            /\ ~log[r].returned
            /\ ~log[r].formatted
            /\ log[r].formatCalls = 0
            /\ conn[r] = 0
            /\ \A c \in ConnIds :
                  r \in connections[c].users =>
                      /\ c = statsConn[r]
                      /\ \A i \in 1 .. Len(connections[c].statements) :
                            connections[c].statements[i] =
                                [by |-> r, sql |-> StatsSql[i]]
            /\ InStats(r) =>
                  /\ log[r].branch = "failed"
                  /\ answer[r] = Some(sql_query[r])
                  /\ StartsWith(answer[r].val, ErrorGeneratingSql)
                  /\ log[r].shown[1] =
                        [by |-> "st.error", text |-> sql_query[r]]

\* C3 witness: a run whose translation call raised has shown the error
\* and drawn the Quick Stats panel on a connection of its own.
C3_Witness ==
    \E r \in Requests :
        /\ log[r].translateRaised
        /\ pc[r] = "end"
        /\ log[r].metrics = Len(StatsSql)
        /\ connections[statsConn[r]].state = "closed"

\* C4: the extracted query holds no triple-backtick marker and no leading
\* or trailing whitespace, and the fenced example yields its statement.
C4_ExtractedQueryHasNoFence ==
    fnPc = "extracted" =>
        /\ ~Contains(fnOnce, Fence)
        /\ fnOnce # <<>> =>
              /\ fnOnce[1] \notin Whitespace
              /\ fnOnce[Len(fnOnce)] \notin Whitespace
        /\ fnIn = FencedExample => fnOnce = SelectInventory

\* C4 witness: a raw output with a tagged fence nested in a bare one has
\* been reduced to the statement it holds.
C4_Witness ==
    /\ fnPc = "extracted"
    /\ fnIn = Fence \o FenceSql \o <<"S">> \o Fence \o Fence
    /\ fnOnce = <<"S">>

\* C5: a second pass of clean_response_text changes nothing.
C5_CleanIdempotent ==
    fnPc = "twice" => fnTwice = fnOnce

\* C5 witness: the first pass inserted spaces under all three rules and
\* the second pass has run.
C5_Witness ==
    /\ fnPc = "twice"
    /\ fnIn = <<"U+0663", "a", "A", ".", "A">>
    /\ fnOnce = <<"U+0663", " ", "a", " ", "A", ".", " ", "A">>

\* C6: given an execution error, format_response makes no model call and
\* returns the apology with the error in it; given no error and no rows,
\* it makes no model call and returns the no-match text; given rows, it
\* calls the model exactly once.
C6_FormatModelCalls ==
    \A r \in Requests :
        log[r].formatted =>
            CASE error[r].some ->
                    /\ log[r].formatCalls = 0
                    /\ ~Faulted(r)
                    /\ answer[r] = Some(ApologyPrefix \o error[r].val)
              [] ~error[r].some /\ ~Truthy(results[r]) ->
                    /\ log[r].formatCalls = 0
                    /\ ~Faulted(r)
                    /\ answer[r] = Some(NoMatchText)
              [] OTHER -> log[r].formatCalls = 1

\* C7: when the formatting call fails on a non-empty result set, the
\* answer is the fallback rendering of every row, in order and without
\* the clean-up pass, whatever the rows hold.
C7_FallbackAlwaysRenders ==
    \A r \in Requests :
        log[r].formatRaised =>
            /\ ~Faulted(r)
            /\ answer[r] =
                  Some(FoundPre \o IntStr(Len(results[r].val)) \o FoundPost
                       \o Concat([i \in 1 .. Len(results[r].val) |->
                                     RowText(iterrows(DataFrame(
                                                 results[r].val))[i])]))

\* C8: a failed connection attempt makes execute_query return no rows and
\* the connection error, without a cursor or a statement for the query,
\* and formatting renders that error as the apology, without a model call.
C8_ConnectionFailureIsReported ==
    \A r \in Requests :
        (log[r].connects = 1 /\ conn[r] = 0) =>
            /\ ~Faulted(r)
            /\ log[r].returned
            /\ results[r] = NoneV
            /\ error[r] = Some(ConnFailedMsg)
            /\ log[r].cursors = 0
            /\ log[r].executes = 0
            /\ HandlerDone(r) =>
                  /\ answer[r] = Some(ApologyPrefix \o ConnFailedMsg)
                  /\ log[r].formatCalls = 0

\* C9: with concurrent requests on the one instance, every executor call
\* has a connection object of its own, which carries that request's
\* statement only and is closed once the call has ended; no connection
\* object is held by two requests; the instance holds the configuration
\* and nothing else; and the question, query, rows, error and answer of a
\* request are those of its own input and of its own calls.
C9_NoSharingAcrossRequests ==
    /\ store_ai \in {NoneV, Some(Instance)}
    /\ \A c \in ConnIds :
          /\ Cardinality(connections[c].users) <= 1
          /\ \A i \in 1 .. Len(connections[c].statements) :
                connections[c].statements[i].by \in connections[c].users
    /\ \A r \in Requests :
          /\ pc[r] \notin {"idle", "create"} => store_ai = Some(Instance)
          /\ question[r] \in Questions(r)
          /\ log[r].translateCalls > 0 =>
                sql_query[r] \in
                    {natural_language_to_sql(outcome, cause) :
                        outcome \in {ModelRaises} \cup
                            {ModelReturns(t) :
                                t \in TranslationTexts(question[r])},
                        cause \in ErrorTexts}
          /\ conn[r] # 0 =>
                /\ connections[conn[r]].users = {r}
                /\ \A i \in 1 .. Len(connections[conn[r]].statements) :
                      connections[conn[r]].statements[i] =
                          [by |-> r, sql |-> sql_query[r]]
                /\ pc[r] \notin {"cursor", "execute", "fetch", "closecursor",
                                 "closeconn", "except", "exceptclose"} =>
                      connections[conn[r]].state = "closed"
          /\ fetched[r].some =>
                fetched[r].val =
                    HeadRows(Rows(table, <<[by |-> r, sql |-> sql_query[r]]>>),
                             Len(fetched[r].val))
          /\ results[r].some => results[r] = fetched[r]
          /\ error[r].some => error[r] \in {Some(ConnFailedMsg), exc[r]}
          /\ answer[r].some =>
                answer[r].val \in
                    {sql_query[r]} \cup
                    {format_response(results[r], error[r], outcome).text :
                        outcome \in {ModelRaises} \cup
                            {ModelReturns(t) : t \in FormattingTexts}}
          /\ statsConn[r] # 0 =>
                /\ connections[statsConn[r]].users = {r}
                /\ \A i \in 1 .. Len(connections[statsConn[r]].statements) :
                      connections[statsConn[r]].statements[i].by = r
    /\ \A r1, r2 \in Requests :
          /\ (conn[r1] # 0 /\ statsConn[r2] # 0) => conn[r1] # statsConn[r2]
          /\ (r1 # r2 /\ conn[r1] # 0) => conn[r1] # conn[r2]
          /\ (r1 # r2 /\ statsConn[r1] # 0) => statsConn[r1] # statsConn[r2]

\* C10: the translation-failed branch is taken exactly when the
\* translation call raised.
C10_FailedBranchIffCallFailed ==
    \A r \in Requests :
        log[r].branch # "none" =>
            (log[r].branch = "failed" <=> log[r].translateRaised)
====
